---- MODULE Spec2Model ----
(***************************************************************************)
(* Model of src/server.js: an Express relay in front of an LM Studio       *)
(* (OpenAI compatible) server.  One request is followed from its arrival   *)
(* to the end of its handler; requests share no state, so one request at a *)
(* time is the whole program.                                              *)
(*                                                                         *)
(* JavaScript values are tagged records [t, v]: t = "undefined" is an      *)
(* absent field.  Temperatures are counted in tenths (7 is 0.7).  Upstream *)
(* chunks are sequences of bytes (0..255), client writes are the bytes     *)
(* res.write puts on the wire for the string it is handed.                 *)
(***************************************************************************)
EXTENDS Integers, Sequences, FiniteSets, TLC

(* ------------------------------ bounds -------------------------------- *)
MaxSamples == 2
MaxChunks == 2
MaxChunkLen == 2

(* --------------------------- JavaScript values ------------------------ *)
UndefS == [t |-> "undefined", v |-> ""]
Str(s) == [t |-> "string", v |-> s]
UndefN == [t |-> "undefined", v |-> 0]
Num(n) == [t |-> "number", v |-> n]
UndefA == [t |-> "undefined", v |-> <<>>]
NotArray == [t |-> "string", v |-> <<>>]
Arr(a) == [t |-> "array", v |-> a]

\* !x for a string-or-undefined value: undefined and "" are falsy.
TruthyS(x) == x.t = "string" /\ x.v # ""
\* parameter default of a destructuring: applies to undefined only.
Default(x, d) == IF x.t = "undefined" THEN d ELSE x

(* --------------------------- program constants ------------------------ *)
defaultTemperature == 7
defaultMaxTokens == 512
defaultLength == 400
defaultIntensity == 6
analyzeMaxTokens == 600
analyzeTemperature == 5
generateTemperature == 7
tokenFloor == 256
tokenCeiling == 2000

analyzePrompt == "You are a writing style synthesiser. Given the following samples, extract a concise master style guide. Capture tone, pacing, vocabulary, imagery, sentence length, hypnotic devices (e.g., repetition, rhythm, embedded commands), and persona. Provide 5-7 bullet points titled \"Master Style\" followed by a 2-3 sentence summary under \"Voice Overview\". Keep it actionable."

analyzeStreamPrompt == "You are a writing style synthesiser. Given the following samples, extract a concise master style guide. Capture tone, pacing, vocabulary, imagery, sentence length, hypnotic devices (e.g., repetition, rhythm, embedded commands), and persona. Provide 5-7 bullet points titled \"Master Style\" followed by a 2-3 sentence summary under \"Voice Overview\". Keep it actionable. Stream partial results as they become available."

generatePrompt(length, intensity) ==
    "Using the provided master style, write a hypnotic script. Respect the tone, pacing, and hypnotic devices described. Approximate length: "
    \o ToString(length) \o " words. Intensity 1-10: " \o ToString(intensity)
    \o " (1 = light relaxation, 10 = profound trance). Include a brief induction, deepening, themed body, and gentle exit. Keep language safe and supportive."

generateStreamPrompt(length, intensity) ==
    "Using the provided master style, write a hypnotic script. Respect the tone, pacing, and hypnotic devices described. Approximate length: "
    \o ToString(length) \o " words. Intensity 1-10: " \o ToString(intensity)
    \o " (1 = light relaxation, 10 = profound trance). Include a brief induction, deepening, themed body, and gentle exit. Keep language safe and supportive. Stream partial results as they become available."

(* ----------------------------- pure helpers --------------------------- *)
\* samples.map((sample, index) => `Sample ${index + 1}:\n${sample}`)
sampleBlockZeroBased(sample, index) == "Sample " \o ToString(index) \o ":\n" \o sample
sampleBlock(sample, index) == "Sample " \o ToString(index + 1) \o ":\n" \o sample

mapSamples(samples) == [i \in 1..Len(samples) |-> sampleBlock(samples[i], i - 1)]

\* Array.prototype.join
RECURSIVE join(_, _)
join(parts, sep) ==
    IF Len(parts) = 0 THEN ""
    ELSE IF Len(parts) = 1 THEN parts[1]
    ELSE parts[1] \o sep \o join(Tail(parts), sep)

joinedSamples(samples) == join(mapSamples(samples), "\n\n")

\* `${theme ? `Theme or focus: ${theme}\n\n` : ''}Master style:\n${styleSummary}`
userContent(theme, styleSummary) ==
    (IF TruthyS(theme) THEN "Theme or focus: " \o theme.v \o "\n\n" ELSE "")
    \o "Master style:\n" \o styleSummary.v

\* Math.round(length / 0.75): length / 0.75 is 4*length/3, and Math.round(x)
\* is floor(x + 1/2).
roundLengthFloor(length) == (4 * length) \div 3
roundLength(length) == (8 * length + 3) \div 6

MathMax(a, b) == IF a >= b THEN a ELSE b
MathMin(a, b) == IF a <= b THEN a ELSE b

\* Math.min(Math.max(Math.round(length / 0.75), 256), 2000)
tokenBudget(length) == MathMin(MathMax(roundLength(length), tokenFloor), tokenCeiling)

(* ------------------- chunk to string to wire (UTF-8) ------------------ *)
replacementChar == 65533

\* Buffer.from(chunk).toString(): UTF-8 decoding of one chunk on its own; an
\* ill-formed or truncated sequence decodes to U+FFFD.
RECURSIVE utf8Decode(_)
RECURSIVE utf8Continue(_, _, _, _, _)
utf8Continue(bytes, needed, cp, lower, upper) ==
    IF Len(bytes) = 0 THEN <<replacementChar>>
    ELSE IF bytes[1] < lower \/ bytes[1] > upper
         THEN <<replacementChar>> \o utf8Decode(bytes)
    ELSE IF needed = 1
         THEN <<cp * 64 + (bytes[1] - 128)>> \o utf8Decode(Tail(bytes))
    ELSE utf8Continue(Tail(bytes), needed - 1, cp * 64 + (bytes[1] - 128), 128, 191)

utf8Decode(bytes) ==
    IF Len(bytes) = 0 THEN <<>>
    ELSE LET b == bytes[1] IN
         IF b <= 127 THEN <<b>> \o utf8Decode(Tail(bytes))
         ELSE IF b >= 194 /\ b <= 223
              THEN utf8Continue(Tail(bytes), 1, b - 192, 128, 191)
         ELSE IF b >= 224 /\ b <= 239
              THEN utf8Continue(Tail(bytes), 2, b - 224,
                                IF b = 224 THEN 160 ELSE 128,
                                IF b = 237 THEN 159 ELSE 191)
         ELSE IF b >= 240 /\ b <= 244
              THEN utf8Continue(Tail(bytes), 3, b - 240,
                                IF b = 240 THEN 144 ELSE 128,
                                IF b = 244 THEN 143 ELSE 191)
         ELSE <<replacementChar>> \o utf8Decode(Tail(bytes))

\* res.write(string): the string goes on the wire UTF-8 encoded.
RECURSIVE utf8Encode(_)
utf8Encode(cps) ==
    IF Len(cps) = 0 THEN <<>>
    ELSE LET c == cps[1] IN
         (IF c < 128 THEN <<c>>
          ELSE IF c < 2048 THEN <<192 + (c \div 64), 128 + (c % 64)>>
          ELSE IF c < 65536
               THEN <<224 + (c \div 4096), 128 + ((c \div 64) % 64), 128 + (c % 64)>>
          ELSE <<240 + (c \div 262144), 128 + ((c \div 4096) % 64),
                 128 + ((c \div 64) % 64), 128 + (c % 64)>>)
         \o utf8Encode(Tail(cps))

\* res.write(typeof chunk === 'string' ? chunk : Buffer.from(chunk).toString())
\* for the Uint8Array chunks a fetch body yields.
writtenBytes(chunk) == utf8Encode(utf8Decode(chunk))

(* --------------------------- upstream payloads ------------------------ *)
noPayload ==
    [stream |-> FALSE, model |-> UndefS, messages |-> UndefA,
     max_tokens |-> UndefN, temperature |-> UndefN]

\* `temperature || 0.7`, `maxTokens || 512`: what a falsy test would do.
DefaultIfFalsy(x, d) == IF x.t = "undefined" \/ x.v = 0 THEN d ELSE x

chatPayloadFalsyDefaults(b) ==
    [stream |-> FALSE, model |-> b.model, messages |-> b.messages,
     max_tokens |-> DefaultIfFalsy(b.maxTokens, Num(defaultMaxTokens)),
     temperature |-> DefaultIfFalsy(b.temperature, Num(defaultTemperature))]

chatPayload(b) ==
    [stream |-> FALSE, model |-> b.model, messages |-> b.messages,
     max_tokens |-> Default(b.maxTokens, Num(defaultMaxTokens)),
     temperature |-> Default(b.temperature, Num(defaultTemperature))]

chatMessages(system, user) ==
    Arr(<<[role |-> "system", content |-> system], [role |-> "user", content |-> user]>>)

analyzeStylePayload(b) ==
    [stream |-> FALSE, model |-> b.model,
     messages |-> chatMessages(analyzePrompt, joinedSamples(b.samples.v)),
     max_tokens |-> Num(analyzeMaxTokens), temperature |-> Num(analyzeTemperature)]

analyzeStyleStreamPayload(b) ==
    [stream |-> TRUE, model |-> b.model,
     messages |-> chatMessages(analyzeStreamPrompt, joinedSamples(b.samples.v)),
     max_tokens |-> Num(analyzeMaxTokens), temperature |-> Num(analyzeTemperature)]

generateScriptPayload(b) ==
    LET length == Default(b.length, Num(defaultLength)).v
        intensity == Default(b.intensity, Num(defaultIntensity)).v
    IN [stream |-> FALSE, model |-> b.model,
        messages |-> chatMessages(generatePrompt(length, intensity),
                                  userContent(b.theme, b.styleSummary)),
        max_tokens |-> Num(tokenBudget(length)),
        temperature |-> Num(generateTemperature)]

generateScriptStreamPayloadUnclamped(b) ==
    LET length == Default(b.length, Num(defaultLength)).v
        intensity == Default(b.intensity, Num(defaultIntensity)).v
    IN [stream |-> TRUE, model |-> b.model,
        messages |-> chatMessages(generateStreamPrompt(length, intensity),
                                  userContent(b.theme, b.styleSummary)),
        max_tokens |-> Num(roundLength(length)),
        temperature |-> Num(generateTemperature)]

generateScriptStreamPayload(b) ==
    LET length == Default(b.length, Num(defaultLength)).v
        intensity == Default(b.intensity, Num(defaultIntensity)).v
    IN [stream |-> TRUE, model |-> b.model,
        messages |-> chatMessages(generateStreamPrompt(length, intensity),
                                  userContent(b.theme, b.styleSummary)),
        max_tokens |-> Num(tokenBudget(length)),
        temperature |-> Num(generateTemperature)]

(* ------------------------------ validation ---------------------------- *)
\* !model
chatInvalid(b) == ~TruthyS(b.model)
\* !model || !samples || !Array.isArray(samples) || samples.length === 0
analyzeInvalid(b) ==
    \/ ~TruthyS(b.model)
    \/ b.samples.t = "undefined"
    \/ b.samples.t # "array"
    \/ Len(b.samples.v) = 0
generateInvalidModelOnly(b) == ~TruthyS(b.model)
\* !model || !styleSummary
generateInvalid(b) == ~TruthyS(b.model) \/ ~TruthyS(b.styleSummary)

(* -------------------------------- inputs ------------------------------ *)
RECURSIVE SeqsUpTo(_, _)
SeqsUpTo(S, n) ==
    IF n = 0 THEN {<<>>}
    ELSE SeqsUpTo(S, n - 1)
         \cup {Append(q, x) : q \in {r \in SeqsUpTo(S, n - 1) : Len(r) = n - 1}, x \in S}

Models == {UndefS, Str(""), Str("m1")}
MessagesValues == {UndefA, Arr(<<[role |-> "user", content |-> "hi"]>>)}
Temperatures == {UndefN, Num(0), Num(12)}
MaxTokensValues == {UndefN, Num(0), Num(64)}
SampleTexts == {"A", "B"}
SamplesValues == {UndefA, NotArray} \cup {Arr(q) : q \in SeqsUpTo(SampleTexts, MaxSamples)}
Summaries == {UndefS, Str(""), Str("S")}
LengthValues == {-3, 0, 1, 2, 191, 192, 193, 194, 400, 1499, 1500, 1501, 100000}
Lengths == {UndefN} \cup {Num(n) : n \in LengthValues}
Intensities == {UndefN, Num(9)}
Themes == {UndefS, Str(""), Str("T")}

emptyBody ==
    [model |-> UndefS, messages |-> UndefA, temperature |-> UndefN,
     maxTokens |-> UndefN, samples |-> UndefA, styleSummary |-> UndefS,
     length |-> UndefN, intensity |-> UndefN, theme |-> UndefS]

ChatBodies ==
    {[emptyBody EXCEPT !.model = m, !.messages = ms, !.temperature = t, !.maxTokens = k] :
        m \in Models, ms \in MessagesValues, t \in Temperatures, k \in MaxTokensValues}
AnalyzeBodies ==
    {[emptyBody EXCEPT !.model = m, !.samples = ss] : m \in Models, ss \in SamplesValues}
GenerateBodies ==
    {[emptyBody EXCEPT !.model = m, !.styleSummary = y, !.length = l,
                        !.intensity = i, !.theme = th] :
        m \in Models, y \in Summaries, l \in Lengths, i \in Intensities, th \in Themes}

\* The relay is followed on a few requests and every chunking of the bytes
\* 'A' and the two bytes of U+00E9; the payloads on every request and one chunk.
RelayAnalyzeBodies ==
    {[emptyBody EXCEPT !.model = m, !.samples = Arr(<<"A">>)] : m \in {UndefS, Str("m1")}}
RelayGenerateBodies ==
    {[emptyBody EXCEPT !.model = Str("m1"), !.styleSummary = y] : y \in {UndefS, Str("S")}}
Bytes == {65, 195, 169}
Chunks == SeqsUpTo(Bytes, MaxChunkLen) \ {<<>>}
PlainChunks == {<<65>>}

UpstreamStatuses == {404, 500}
UpstreamTexts == {"", "model not loaded"}
ThrownMessages == {"", "fetch failed"}

(* -------------------------------- state ------------------------------- *)
VARIABLES
    pc,                 \* where the handler is
    op,                 \* the route that matched
    body,               \* req.body
    upstreamCalls,      \* the fetch calls issued, in order
    upstream,           \* what became of the upstream call
    statusCode,         \* res.statusCode
    headersSent,        \* res.headersSent
    wireStatus,         \* the status line the client was sent (0: none yet)
    contentType,        \* the Content-Type header of res
    responses,          \* the JSON responses the client was sent
    resEnded,           \* res.end() was called
    logged,             \* the messages of the errors console.error was given
    upstreamChunks,     \* the chunks read from upstream.body
    written,            \* the bytes of each res.write
    clientClosed,       \* the client has disconnected
    reqCloseEmitted,    \* req has emitted its one 'close' event
    closeListener,      \* req.on('close') is registered
    aborted,            \* controller.abort() was called
    readAfterClose      \* chunks read from upstream after the disconnect

vars == <<pc, op, body, upstreamCalls, upstream, statusCode, headersSent, wireStatus,
          contentType, responses, resEnded, logged, upstreamChunks, written,
          clientClosed, reqCloseEmitted, closeListener, aborted, readAfterClose>>

resVars == <<statusCode, headersSent, wireStatus, contentType, responses, resEnded>>
relayVars == <<upstreamChunks, written, clientClosed, reqCloseEmitted, closeListener, aborted,
               readAfterClose>>

\* the routes whose request body express.json reads before the handler runs
BodyRoutes == {"chat", "analyze-style", "analyze-style/stream",
               "generate-script", "generate-script/stream"}

\* Node emits 'close' on req on the tick after the body's 'end', that is after
\* the handler reached its await and before any upstream answer can arrive.
closeEmittedBeforeAnswer == op \in BodyRoutes => reqCloseEmitted

Init ==
    /\ pc = "idle"
    /\ op = "none"
    /\ body = emptyBody
    /\ upstreamCalls = <<>>
    /\ upstream = "none"
    /\ statusCode = 200
    /\ headersSent = FALSE
    /\ wireStatus = 0
    /\ contentType = "none"
    /\ responses = <<>>
    /\ resEnded = FALSE
    /\ logged = <<>>
    /\ upstreamChunks = <<>>
    /\ written = <<>>
    /\ clientClosed = FALSE
    /\ reqCloseEmitted = FALSE
    /\ closeListener = FALSE
    /\ aborted = FALSE
    /\ readAfterClose = 0

(* ------------------------------ responses ----------------------------- *)
\* res.status(code).json(obj).  status() sets res.statusCode; json() sets the
\* Content-Type header, which throws ERR_HTTP_HEADERS_SENT once the headers
\* are out, and the exception leaves the handler.
resStatusJson(code, obj, after) ==
    /\ statusCode' = code
    /\ IF headersSent
       THEN /\ pc' = "rejected"
            /\ UNCHANGED <<headersSent, wireStatus, contentType, responses, resEnded>>
       ELSE /\ pc' = after
            /\ headersSent' = TRUE
            /\ wireStatus' = code
            /\ contentType' = "application/json"
            /\ responses' = Append(responses, [status |-> code, body |-> obj])
            /\ resEnded' = TRUE

\* console.error(error);
\* res.status(500).json({ message: error.message || 'Unexpected error' })
errorResponseKeepsStatus(message) ==
    /\ logged' = Append(logged, message)
    /\ resStatusJson(statusCode,
                     [message |-> IF message = "" THEN "Unexpected error" ELSE message], "done")

errorResponse(message) ==
    /\ logged' = Append(logged, message)
    /\ resStatusJson(500, [message |-> IF message = "" THEN "Unexpected error" ELSE message],
                     "done")

\* return res.status(400).json({ message })
reject400(message) ==
    /\ resStatusJson(400, [message |-> message], "done")
    /\ UNCHANGED logged

(* --------------------------- buffered handlers ------------------------ *)
\* callLmStudio(endpoint, payload, method) up to its first await
callLmStudio(endpoint, payload, method) ==
    /\ upstreamCalls' = Append(upstreamCalls,
                               [endpoint |-> endpoint, method |-> method, payload |-> payload])
    /\ upstream' = "pending"
    /\ pc' = "awaitCall"
    /\ UNCHANGED resVars
    /\ UNCHANGED logged

Arrive(route, b) ==
    /\ pc = "idle"
    /\ op' = route
    /\ body' = b

GetModels ==
    /\ Arrive("models", emptyBody)
    /\ callLmStudio("/v1/models", noPayload, "GET")
    /\ UNCHANGED relayVars

PostChat(b) ==
    /\ Arrive("chat", b)
    /\ IF chatInvalid(b)
       THEN reject400("Model is required") /\ UNCHANGED <<upstreamCalls, upstream>>
       ELSE callLmStudio("/v1/chat/completions", chatPayload(b), "POST")
    /\ UNCHANGED relayVars

PostAnalyzeStyle(b) ==
    /\ Arrive("analyze-style", b)
    /\ IF analyzeInvalid(b)
       THEN /\ reject400("Model and at least one text sample are required.")
            /\ UNCHANGED <<upstreamCalls, upstream>>
       ELSE callLmStudio("/v1/chat/completions", analyzeStylePayload(b), "POST")
    /\ UNCHANGED relayVars

PostGenerateScript(b) ==
    /\ Arrive("generate-script", b)
    /\ IF generateInvalid(b)
       THEN /\ reject400("Model and a style summary are required.")
            /\ UNCHANGED <<upstreamCalls, upstream>>
       ELSE callLmStudio("/v1/chat/completions", generateScriptPayload(b), "POST")
    /\ UNCHANGED relayVars

\* response.ok and response.json() resolves: res.json(data)
CallReturns(data) ==
    /\ pc = "awaitCall"
    /\ closeEmittedBeforeAnswer
    /\ upstream' = "ok"
    /\ resStatusJson(statusCode, [data |-> data], "done")
    /\ UNCHANGED logged
    /\ UNCHANGED <<op, body, upstreamCalls>>
    /\ UNCHANGED relayVars

\* !response.ok: throw new Error(`LM Studio responded with ${status}: ${text}`)
CallNotOk(status, text) ==
    /\ pc = "awaitCall"
    /\ closeEmittedBeforeAnswer
    /\ upstream' = "failed"
    /\ errorResponse("LM Studio responded with " \o ToString(status) \o ": " \o text)
    /\ UNCHANGED <<op, body, upstreamCalls>>
    /\ UNCHANGED relayVars

\* fetch() or response.json() rejects
CallThrows(message) ==
    /\ pc = "awaitCall"
    /\ closeEmittedBeforeAnswer
    /\ upstream' = "failed"
    /\ errorResponse(message)
    /\ UNCHANGED <<op, body, upstreamCalls>>
    /\ UNCHANGED relayVars

(* --------------------------- streaming handlers ----------------------- *)
\* streamLmStudio up to its first await: the event-stream headers are set and
\* flushed (status 200 goes out), then the fetch is issued under
\* controller.signal.
streamLmStudio(endpoint, payload) ==
    /\ contentType' = "text/event-stream"
    /\ headersSent' = TRUE
    /\ wireStatus' = statusCode
    /\ upstreamCalls' = Append(upstreamCalls,
                               [endpoint |-> endpoint, method |-> "POST", payload |-> payload])
    /\ upstream' = "pending"
    /\ pc' = "awaitFetch"
    /\ UNCHANGED <<statusCode, responses, resEnded, logged>>

PostAnalyzeStyleStream(b) ==
    /\ Arrive("analyze-style/stream", b)
    /\ IF analyzeInvalid(b)
       THEN /\ reject400("Model and at least one text sample are required.")
            /\ UNCHANGED <<upstreamCalls, upstream>>
       ELSE streamLmStudio("/v1/chat/completions", analyzeStyleStreamPayload(b))
    /\ UNCHANGED relayVars

PostGenerateScriptStream(b) ==
    /\ Arrive("generate-script/stream", b)
    /\ IF generateInvalid(b)
       THEN /\ reject400("Model and a style summary are required.")
            /\ UNCHANGED <<upstreamCalls, upstream>>
       ELSE streamLmStudio("/v1/chat/completions", generateScriptStreamPayload(b))
    /\ UNCHANGED relayVars

\* !upstream.ok || !upstream.body: throw, caught by the handler's errorResponse
StreamNotEstablished(status, text) ==
    /\ pc = "awaitFetch"
    /\ closeEmittedBeforeAnswer
    /\ upstream' = "failed"
    /\ errorResponse("LM Studio stream failed with " \o ToString(status) \o ": " \o text)
    /\ UNCHANGED <<op, body, upstreamCalls>>
    /\ UNCHANGED relayVars

\* fetch() rejects
StreamFetchThrows(message) ==
    /\ pc = "awaitFetch"
    /\ closeEmittedBeforeAnswer
    /\ upstream' = "failed"
    /\ errorResponse(message)
    /\ UNCHANGED <<op, body, upstreamCalls>>
    /\ UNCHANGED relayVars

\* upstream.ok with a body: req.on('close', () => controller.abort()) and the
\* for await loop starts.  The 'close' of req was emitted before, with no
\* listener to run, and is not emitted again.
StreamEstablished ==
    /\ pc = "awaitFetch"
    /\ closeEmittedBeforeAnswer
    /\ pc' = "relaying"
    /\ upstream' = "established"
    /\ closeListener' = TRUE
    /\ UNCHANGED <<op, body, upstreamCalls>>
    /\ UNCHANGED resVars
    /\ UNCHANGED <<logged, upstreamChunks, written, clientClosed, reqCloseEmitted, aborted,
                   readAfterClose>>

\* one turn of the for await loop: res.write(Buffer.from(chunk).toString())
RelayChunk(chunk) ==
    /\ pc = "relaying"
    /\ ~aborted
    /\ Len(upstreamChunks) < MaxChunks
    /\ upstreamChunks' = Append(upstreamChunks, chunk)
    /\ written' = Append(written, writtenBytes(chunk))
    /\ readAfterClose' = IF clientClosed THEN readAfterClose + 1 ELSE readAfterClose
    /\ UNCHANGED <<pc, op, body, upstreamCalls, upstream>>
    /\ UNCHANGED resVars
    /\ UNCHANGED <<logged, clientClosed, reqCloseEmitted, closeListener, aborted>>

\* the upstream body is done: the loop ends and res.end() runs
UpstreamEnds ==
    /\ pc = "relaying"
    /\ ~aborted
    /\ pc' = "done"
    /\ upstream' = "ended"
    /\ resEnded' = TRUE
    /\ UNCHANGED <<op, body, upstreamCalls>>
    /\ UNCHANGED <<statusCode, headersSent, wireStatus, contentType, responses, logged>>
    /\ UNCHANGED relayVars

\* the upstream body errors in the middle: the loop throws into errorResponse
UpstreamBreaks(message) ==
    /\ pc = "relaying"
    /\ ~aborted
    /\ upstream' = "broken"
    /\ errorResponse(message)
    /\ UNCHANGED <<op, body, upstreamCalls>>
    /\ UNCHANGED relayVars

\* req emits 'close' once the body express.json read has ended; its listeners,
\* if any are registered by then, run
ReqEmitsClose ==
    /\ pc # "idle"
    /\ op \in BodyRoutes
    /\ ~reqCloseEmitted
    /\ reqCloseEmitted' = TRUE
    /\ aborted' = (aborted \/ closeListener)
    /\ UNCHANGED <<pc, op, body, upstreamCalls, upstream>>
    /\ UNCHANGED resVars
    /\ UNCHANGED <<logged, upstreamChunks, written, clientClosed, closeListener, readAfterClose>>

\* the client of a streaming request goes away: the socket is destroyed and
\* res emits 'close'; req emits 'close', and runs the listener, only if it has
\* not emitted it already.  Later res.write calls go nowhere and do not throw.
ClientDisconnects ==
    /\ pc \in {"awaitFetch", "relaying"}
    /\ ~clientClosed
    /\ clientClosed' = TRUE
    /\ reqCloseEmitted' = TRUE
    /\ aborted' = (aborted \/ (closeListener /\ ~reqCloseEmitted))
    /\ UNCHANGED <<pc, op, body, upstreamCalls, upstream>>
    /\ UNCHANGED resVars
    /\ UNCHANGED <<logged, upstreamChunks, written, closeListener, readAfterClose>>

(* ------------------------- routes without a handler ------------------- *)
StaticFiles == {"index.html"}
ParserErrors == {400, 413}

\* express.static: a GET for a file of public/ is answered with the file
GetStatic(file) ==
    /\ pc = "idle"
    /\ op' = "express.static"
    /\ pc' = "done"
    /\ headersSent' = TRUE
    /\ wireStatus' = statusCode
    /\ contentType' = "text/html"
    /\ responses' = Append(responses, [status |-> statusCode, body |-> [file |-> file]])
    /\ resEnded' = TRUE
    /\ UNCHANGED <<body, upstreamCalls, upstream, statusCode, logged>>
    /\ UNCHANGED relayVars

\* app.get('*'): res.sendFile(public/index.html) for any other GET path
GetFallback ==
    /\ pc = "idle"
    /\ op' = "fallback"
    /\ pc' = "done"
    /\ headersSent' = TRUE
    /\ wireStatus' = statusCode
    /\ contentType' = "text/html"
    /\ responses' = Append(responses, [status |-> statusCode, body |-> [file |-> "index.html"]])
    /\ resEnded' = TRUE
    /\ UNCHANGED <<body, upstreamCalls, upstream, statusCode, logged>>
    /\ UNCHANGED relayVars

\* express.json refuses the body (malformed JSON: 400, over 2mb: 413): Express
\* answers with its error page and no handler runs
BodyParserRejects(status) ==
    /\ pc = "idle"
    /\ op' = "express.json"
    /\ pc' = "done"
    /\ statusCode' = status
    /\ headersSent' = TRUE
    /\ wireStatus' = status
    /\ contentType' = "text/html"
    /\ responses' = Append(responses, [status |-> status, body |-> [page |-> "error"]])
    /\ resEnded' = TRUE
    /\ UNCHANGED <<body, upstreamCalls, upstream, logged>>
    /\ UNCHANGED relayVars

(* ---------------------------- specifications -------------------------- *)
StreamSteps(chunks) ==
    \/ \E st \in UpstreamStatuses \cup {204}, tx \in UpstreamTexts : StreamNotEstablished(st, tx)
    \/ \E m \in ThrownMessages : StreamFetchThrows(m)
    \/ StreamEstablished
    \/ \E c \in chunks : RelayChunk(c)
    \/ UpstreamEnds
    \/ \E m \in ThrownMessages : UpstreamBreaks(m)
    \/ ReqEmitsClose
    \/ ClientDisconnects

Next ==
    \/ GetModels
    \/ \E b \in ChatBodies : PostChat(b)
    \/ \E b \in AnalyzeBodies : PostAnalyzeStyle(b)
    \/ \E b \in AnalyzeBodies : PostAnalyzeStyleStream(b)
    \/ \E b \in GenerateBodies : PostGenerateScript(b)
    \/ \E b \in GenerateBodies : PostGenerateScriptStream(b)
    \/ \E d \in {"data"} : CallReturns(d)
    \/ \E st \in UpstreamStatuses, tx \in UpstreamTexts : CallNotOk(st, tx)
    \/ \E m \in ThrownMessages : CallThrows(m)
    \/ StreamSteps(PlainChunks)
    \/ \E f \in StaticFiles : GetStatic(f)
    \/ GetFallback
    \/ \E st \in ParserErrors : BodyParserRejects(st)

Spec == Init /\ [][Next]_vars

NextRelay ==
    \/ \E b \in RelayAnalyzeBodies : PostAnalyzeStyleStream(b)
    \/ \E b \in RelayGenerateBodies : PostGenerateScriptStream(b)
    \/ StreamSteps(Chunks)

SpecRelay == Init /\ [][NextRelay]_vars

(* -------------------------------- claims ------------------------------ *)
PostOps == {"chat", "analyze-style", "analyze-style/stream",
            "generate-script", "generate-script/stream"}
BufferedOps == {"models", "chat", "analyze-style", "generate-script"}
StreamOps == {"analyze-style/stream", "generate-script/stream"}
AnalyzeOps == {"analyze-style", "analyze-style/stream"}
GenerateOps == {"generate-script", "generate-script/stream"}

\* a required field of the operation is missing from the request
RequiredMissing ==
    \/ op \in PostOps /\ body.model.t = "undefined"
    \/ op \in AnalyzeOps /\ (body.samples.t # "array" \/ body.samples.v = <<>>)
    \/ op \in GenerateOps /\ body.styleSummary.t = "undefined"

\* C1: a POST request with a required field missing (chat: model; analyze-style
\* and its stream: model, or samples absent, not an array or empty;
\* generate-script and its stream: model or styleSummary) is answered with
\* HTTP 400 and a {message} body, no upstream call is issued for it, and the
\* response of a streaming variant is not switched to event-stream mode.
C1_ValidationShortCircuits ==
    RequiredMissing =>
        /\ pc = "done"
        /\ Len(responses) = 1
        /\ responses[1].status = 400
        /\ DOMAIN responses[1].body = {"message"}
        /\ op = "chat" => responses[1].body.message = "Model is required"
        /\ wireStatus = 400
        /\ contentType = "application/json"
        /\ upstreamCalls = <<>>
        /\ upstream = "none"

C1_Witness ==
    /\ op = "generate-script/stream"
    /\ TruthyS(body.model)
    /\ body.styleSummary.t = "undefined"
    /\ Len(responses) = 1
    /\ responses[1].status = 400

\* C4: for every buffered operation, when the upstream call returns a non-2xx
\* status or throws, the client receives exactly one response, with status
\* 500 and a JSON body holding a message, and the call is not retried.
C4_BufferedFailureIs500 ==
    (op \in BufferedOps /\ upstream = "failed") =>
        /\ pc = "done"
        /\ Len(responses) = 1
        /\ responses[1].status = 500
        /\ "message" \in DOMAIN responses[1].body
        /\ responses[1].body.message # ""
        /\ wireStatus = 500
        /\ resEnded
        /\ Len(upstreamCalls) = 1

C4_Witness ==
    /\ op = "models"
    /\ upstream = "failed"
    /\ Len(responses) = 1
    /\ responses[1].body.message = "LM Studio responded with 404: model not loaded"

\* the length a script generation request asks for (400 when absent)
RequestedLength == IF body.length.t = "undefined" THEN 400 ELSE body.length.v

\* C6: for script generation, buffered and streaming, the max_tokens sent
\* upstream is round(length / 0.75) clamped to [256, 2000], length being 400
\* when absent: it lies in 256..2000, it is the integer nearest to 4*length/3
\* when that lies in the range, it is 256 for length 0 and 2000 for length
\* 100000, and no smaller length gets a larger budget.
C6_TokenBudgetClamped ==
    (op \in GenerateOps /\ Len(upstreamCalls) = 1) =>
        LET mt == upstreamCalls[1].payload.max_tokens.v
            L == RequestedLength
        IN /\ upstreamCalls[1].payload.max_tokens.t = "number"
           /\ mt \in 256..2000
           /\ \/ mt = 256 /\ 8 * L < 6 * 256 + 3
              \/ mt = 2000 /\ 8 * L >= 6 * 2000 - 3
              \/ 6 * mt - 3 <= 8 * L /\ 8 * L < 6 * mt + 3
           /\ L = 0 => mt = 256
           /\ L = 100000 => mt = 2000
           /\ \A l \in LengthValues : l <= L => tokenBudget(l) <= mt

C6_Witness ==
    /\ op = "generate-script/stream"
    /\ body.length = Num(194)
    /\ Len(upstreamCalls) = 1
    /\ upstreamCalls[1].payload.max_tokens = Num(259)

\* the payload the buffered variant of the operation builds for the request
BufferedPayload ==
    IF op \in AnalyzeOps THEN analyzeStylePayload(body) ELSE generateScriptPayload(body)

streamSentence == " Stream partial results as they become available."

\* C7 as stated: the payload of a streaming operation is the payload its
\* buffered variant builds for the same input, with stream: true added.
C7_StreamPayloadIsBufferedPayload ==
    (op \in StreamOps /\ Len(upstreamCalls) = 1) =>
        upstreamCalls[1].payload = [BufferedPayload EXCEPT !.stream = TRUE]

\* C7 amended: the payload of a streaming operation has the model, the user
\* message, max_tokens and temperature of the payload its buffered variant
\* builds for the same input, stream: true added, and as system message the
\* buffered system prompt followed by the sentence " Stream partial results as
\* they become available."
C7_StreamPayloadUpToPrompt ==
    (op \in StreamOps /\ Len(upstreamCalls) = 1) =>
        LET sp == upstreamCalls[1].payload
            bp == BufferedPayload
        IN /\ sp.stream = TRUE
           /\ bp.stream = FALSE
           /\ sp.model = bp.model
           /\ sp.max_tokens = bp.max_tokens
           /\ sp.temperature = bp.temperature
           /\ sp.messages.t = "array"
           /\ Len(sp.messages.v) = 2
           /\ sp.messages.v[2] = bp.messages.v[2]
           /\ sp.messages.v[1].role = "system"
           /\ sp.messages.v[1].content = bp.messages.v[1].content \o streamSentence

C7_Witness ==
    /\ op = "generate-script/stream"
    /\ Len(upstreamCalls) = 1
    /\ upstreamCalls[1].payload.stream = TRUE
    /\ body.length = Num(100000)
    /\ body.theme = Str("T")

\* the blocks "Sample i:\n" s_i built up from the first sample to the last
RECURSIVE NumberedBlocks(_)
NumberedBlocks(samples) ==
    IF Len(samples) = 1 THEN "Sample 1:\n" \o samples[1]
    ELSE NumberedBlocks(SubSeq(samples, 1, Len(samples) - 1))
         \o "\n\n" \o "Sample " \o ToString(Len(samples)) \o ":\n" \o samples[Len(samples)]

\* C8: for style analysis with samples s_1..s_n, n >= 1, the user message sent
\* upstream is the blocks "Sample i:\n" s_i for i = 1..n in input order,
\* joined by "\n\n", nothing before or after; for ["A","B"] it is
\* "Sample 1:\nA\n\nSample 2:\nB".
C8_SamplesNumberedAndJoined ==
    (op \in AnalyzeOps /\ Len(upstreamCalls) = 1) =>
        LET user == upstreamCalls[1].payload.messages.v[2]
        IN /\ user.role = "user"
           /\ user.content = NumberedBlocks(body.samples.v)
           /\ body.samples.v = <<"A", "B">> => user.content = "Sample 1:\nA\n\nSample 2:\nB"

C8_Witness ==
    /\ op = "analyze-style"
    /\ body.samples = Arr(<<"A", "B">>)
    /\ Len(upstreamCalls) = 1
    /\ upstreamCalls[1].payload.messages.v[2].content = "Sample 1:\nA\n\nSample 2:\nB"

\* C9: for a chat request with a model, exactly one upstream POST to
\* /v1/chat/completions is issued, whose max_tokens is the request's maxTokens
\* (512 when absent), whose temperature is the request's temperature (0.7 when
\* absent), and whose model and messages are the request's.
C9_ChatPayloadPassThrough ==
    (op = "chat" /\ TruthyS(body.model)) =>
        /\ Len(upstreamCalls) = 1
        /\ upstreamCalls[1].endpoint = "/v1/chat/completions"
        /\ upstreamCalls[1].method = "POST"
        /\ LET p == upstreamCalls[1].payload
           IN /\ p.model = body.model
              /\ p.messages = body.messages
              /\ p.max_tokens = IF body.maxTokens.t = "undefined" THEN Num(512)
                                ELSE body.maxTokens
              /\ p.temperature = IF body.temperature.t = "undefined" THEN Num(7)
                                 ELSE body.temperature

C9_Witness ==
    /\ op = "chat"
    /\ body.temperature = Num(0)
    /\ body.maxTokens.t = "undefined"
    /\ Len(upstreamCalls) = 1
    /\ upstreamCalls[1].payload.temperature = Num(0)
    /\ upstreamCalls[1].payload.max_tokens = Num(512)

IsPrefix(p, q) == Len(p) <= Len(q) /\ \A i \in 1..Len(p) : p[i] = q[i]

\* C2: in the streaming relay the chunks written to the client are at every
\* moment a prefix of the chunks received from upstream, and once upstream has
\* ended they are exactly the chunks received, same order, same bytes.
C2_RelayIsVerbatim ==
    op \in StreamOps =>
        /\ IsPrefix(written, upstreamChunks)
        /\ upstream = "ended" => written = upstreamChunks

\* C3: once the upstream POST of a streaming request is issued, a client
\* disconnect (while the call is being established or in mid-stream) cancels
\* the upstream request, and no upstream chunk is read after it.
C3_DisconnectCancelsUpstream ==
    (op \in StreamOps /\ Len(upstreamCalls) = 1 /\ clientClosed) =>
        /\ aborted
        /\ readAfterClose = 0

\* C5: when the upstream call of a streaming operation fails to establish, no
\* upstream byte is relayed and the client receives HTTP 500 with a JSON
\* {message} body.
C5_StreamEstablishFailureIs500 ==
    (op \in StreamOps /\ upstream = "failed") =>
        /\ written = <<>>
        /\ Len(responses) = 1
        /\ responses[1].status = 500
        /\ "message" \in DOMAIN responses[1].body
        /\ wireStatus = 500

\* C10: a validated streaming request whose client stays connected has its
\* response ended whatever the upstream does (fails to establish, breaks in
\* mid-stream, ends), and on a normal end every chunk was written first.
C10_StreamResponseIsEnded ==
    (op \in StreamOps /\ Len(upstreamCalls) = 1 /\ ~clientClosed
        /\ upstream \in {"failed", "broken", "ended"}) =>
        /\ resEnded
        /\ upstream = "ended" => Len(written) = Len(upstreamChunks)

====
